---- MODULE Spec2Model ----
(***************************************************************************)
(* Model of src/src/movesensor.py and src/src/annotation.py.               *)
(*                                                                         *)
(* The program runs main() twice: once on the QThread started by           *)
(* ThreadManager (movesensor.py:186-194, session "worker") and once on the *)
(* main thread (movesensor.py:213, session "main").  Each main() owns an   *)
(* asyncio event loop, a queue, a client task (run_ble_client) and a       *)
(* consumer task (run_queue_consumer).  DATA_POINTS and annotation are     *)
(* module globals shared by both.                                          *)
(*                                                                         *)
(* Each event loop is modelled by its FIFO ready queue: a task runs from   *)
(* the head of the queue up to its next suspending await.  `await          *)
(* queue.put(x)` on the unbounded queue and `await queue.get()` on a       *)
(* non-empty queue do not suspend.  The transport (bleak) is the           *)
(* environment: its calls complete with success or failure, it delivers    *)
(* notifications and it may drop the link at any moment.                   *)
(***************************************************************************)
EXTENDS Integers, Sequences, FiniteSets, TLC

\* ------------------------------------------------------------- bounds
MaxNotifs == 2
MaxInterrupts == 2
MaxDevices == 2

\* ---------------------------------------------------------- constants
Sessions == {"main", "worker"}

\* movesensor.py:43, as a sequence of characters
SENSOR_ID == <<"2","2","3","4","3","0","0","0","0","2","7","8">>

\* asyncio.Queue end-of-stream item (movesensor.py:163, 169)
None == [none |-> TRUE]

\* Device names a discovery pass may report: no name, a foreign name, a name
\* that only contains the serial, and a name ending with it.
NameMissing == <<>>
NameForeign == <<"P","o","l","a","r">>
NameInfix == SENSOR_ID \o <<"x">>
NameSensor == <<"M"," ">> \o SENSOR_ID

Devices ==
  { [name |-> NameMissing, address |-> "a0"],
    [name |-> NameForeign, address |-> "a1"],
    [name |-> NameInfix, address |-> "a2"],
    [name |-> NameSensor, address |-> "a3"] }

\* The lists `await discover()` may return (movesensor.py:77): up to
\* MaxDevices distinct devices, in any order.
DiscoverResults ==
  { l \in UNION { [1..n -> Devices] : n \in 0..MaxDevices } :
      \A i, j \in 1..Len(l) : l[i] = l[j] => i = j }

\* Notification payload lengths delivered by the transport: one byte short of
\* the 18-byte packet, and the full packet.
PayloadLens == {17, 18}

\* The k-th notification's payload: byte offset 2 carries k (the device
\* timestamp, little-endian), every other byte is 0.
Payload(k, n) == [i \in 1..n |-> IF i = 3 THEN k ELSE 0]

ClientTask == [t |-> "client", data |-> <<>>]
ConsumerTask == [t |-> "consumer", data |-> <<>>]
HandlerTask(d) == [t |-> "handler", data |-> d]
DisconnectedTask == [t |-> "disconnected", data |-> <<>>]

VARIABLES
  run,          \* asyncio.run(main(...)): "idle" | "running" | "done" | "raised"
  pc,           \* position of the client task (run_ble_client)
  cpc,          \* position of the consumer task (run_queue_consumer)
  res,          \* awaited transport call: "none" | "pending" | "ok" | "fail";
                \* for discover(), the list returned (SpecDiscover)
  address,      \* address selected by discovery, "None" when nothing matched
  exc,          \* an exception is propagating out of the `async with` body
  event,        \* disconnected_event.is_set()
  sigHandler,   \* raise_graceful_exit is installed for SIGINT/SIGTERM
  link,         \* client.is_connected
  notifying,    \* notification_handler is registered with the transport
  streaming,    \* the device accepted the subscribe command
  ready,        \* the event loop's ready queue
  queue,        \* the asyncio.Queue of main()
  enq,          \* history: every item ever put on the queue, in order
  DATA_POINTS,  \* the module-level accumulator
  files,        \* the CSV files written so far
  fall_state,   \* annotation.fall_state
  nsent,        \* history: notifications delivered so far
  interrupts,   \* history: SIGINT/SIGTERM deliveries so far
  log,          \* history: transport calls and sentinel puts issued by the client
  hlog          \* history: notification_handler invocations

vars == <<run, pc, cpc, res, address, exc, event, sigHandler, link, notifying,
          streaming, ready, queue, enq, DATA_POINTS, files, fall_state, nsent,
          interrupts, log, hlog>>

\* -------------------------------------------------- binary_parser.DataView
\* The accessor reads 4 bytes at a 0-based offset; it fails when they do not
\* all lie inside the buffer.
InBounds(d, off) == off + 4 <= Len(d)

get_uint_32(d, off) ==
  d[off + 1] + 256 * d[off + 2] + 65536 * d[off + 3] + 16777216 * d[off + 4]

\* The float is represented by its IEEE-754 bit pattern, read little-endian.
get_float_32(d, off) ==
  d[off + 1] + 256 * d[off + 2] + 65536 * d[off + 3] + 16777216 * d[off + 4]

\* notification_handler's accessor calls all succeed (movesensor.py:102-112)
Decodable(d) ==
  InBounds(d, 2) /\ InBounds(d, 6) /\ InBounds(d, 10) /\ InBounds(d, 14)

\* models.Acceleration as built at movesensor.py:107-114; the wall clock of
\* timestamp_local is abstracted to one value.
Acceleration(d, fs) ==
  [ timestamp |-> get_uint_32(d, 2),
    timestamp_local |-> "now",
    ax |-> get_float_32(d, 6),
    ay |-> get_float_32(d, 10),
    az |-> get_float_32(d, 14),
    fall_state |-> fs ]

as_csv_field(r) ==
  <<r.timestamp, r.timestamp_local, r.ax, r.ay, r.az, r.fall_state>>

\* ------------------------------------------------------------ save_as_csv
head == <<"timestamp", "timestamp_local", "ax", "ay", "az", "fall_state">>

save_as_csv(dp) == <<head>> \o [i \in 1..Len(dp) |-> as_csv_field(dp[i])]

\* -------------------------------------------------------------- discovery
EndsWith(name, suffix) ==
  /\ Len(name) >= Len(suffix)
  /\ SubSeq(name, Len(name) - Len(suffix) + 1, Len(name)) = suffix

\* Mutant of FirstMatch: the loop does not stop at the first match, so the
\* last matching device is selected.
RECURSIVE FirstMatch_last(_, _)
FirstMatch_last(devices, end_of_serial) ==
  IF devices = <<>> THEN "None"
  ELSE LET later == FirstMatch_last(Tail(devices), end_of_serial) IN
       IF later # "None" THEN later
       ELSE IF Head(devices).name # <<>> /\ EndsWith(Head(devices).name, end_of_serial)
            THEN Head(devices).address
            ELSE "None"

\* The for-loop of movesensor.py:78-86: the address of the first device whose
\* name is truthy and ends with end_of_serial, "None" when there is none.
RECURSIVE FirstMatch(_, _)
FirstMatch(devices, end_of_serial) ==
  IF devices = <<>> THEN "None"
  ELSE IF Head(devices).name # <<>> /\ EndsWith(Head(devices).name, end_of_serial)
       THEN Head(devices).address
       ELSE FirstMatch(Tail(devices), end_of_serial)

\* ------------------------------------------------------------------- Init
Init ==
  /\ run = [s \in Sessions |-> "idle"]
  /\ pc = [s \in Sessions |-> "begin"]
  /\ cpc = [s \in Sessions |-> "begin"]
  /\ res = [s \in Sessions |-> "none"]
  /\ address = [s \in Sessions |-> "None"]
  /\ exc = [s \in Sessions |-> FALSE]
  /\ event = [s \in Sessions |-> FALSE]
  /\ sigHandler = FALSE
  /\ link = [s \in Sessions |-> FALSE]
  /\ notifying = [s \in Sessions |-> FALSE]
  /\ streaming = [s \in Sessions |-> FALSE]
  /\ ready = [s \in Sessions |-> <<>>]
  /\ queue = [s \in Sessions |-> <<>>]
  /\ enq = [s \in Sessions |-> <<>>]
  /\ DATA_POINTS = <<>>
  /\ files = <<>>
  /\ fall_state = "default"
  /\ nsent = 0
  /\ interrupts = 0
  /\ log = [s \in Sessions |-> <<>>]
  /\ hlog = [s \in Sessions |-> <<>>]


\* ------------------------------------------------------------- fragments
Turn(s, kind) ==
  /\ run[s] = "running"
  /\ ready[s] # <<>>
  /\ Head(ready[s]).t = kind

Logged(s, what) == log' = [log EXCEPT ![s] = Append(@, what)]

\* `await queue.put(item)` (movesensor.py:117, 163, 169): the item is appended
\* and a consumer suspended in queue.get() is made ready.  rdy is the ready
\* queue left by the running task.
Put(s, item, rdy) ==
  /\ queue' = [queue EXCEPT ![s] = Append(@, item)]
  /\ enq' = [enq EXCEPT ![s] = Append(@, item)]
  /\ IF cpc[s] = "get"
     THEN /\ cpc' = [cpc EXCEPT ![s] = "woken"]
          /\ ready' = [ready EXCEPT ![s] = Append(rdy, ConsumerTask)]
     ELSE /\ cpc' = cpc
          /\ ready' = [ready EXCEPT ![s] = rdy]

\* A transport call awaited by the client completes: the client is made ready.
Complete(s, ok) ==
  /\ res' = [res EXCEPT ![s] = IF ok THEN "ok" ELSE "fail"]
  /\ ready' = [ready EXCEPT ![s] = Append(@, ClientTask)]

\* An exception raised inside the `async with BleakClient(...)` body
\* (movesensor.py:120-165): BleakClient.__aexit__ disconnects, then the
\* exception leaves run_ble_client.
RaiseInBody(s) ==
  /\ exc' = [exc EXCEPT ![s] = TRUE]
  /\ pc' = [pc EXCEPT ![s] = "aexit"]
  /\ res' = [res EXCEPT ![s] = "pending"]
  /\ ready' = [ready EXCEPT ![s] = Tail(@)]
  /\ Logged(s, "disconnect")

\* disconnected_event.set(): a client suspended in disconnected_event.wait()
\* is made ready by the first set.  rdy is the ready queue at the call.
EventSet(s, rdy) ==
  /\ event' = [event EXCEPT ![s] = TRUE]
  /\ ready' = [ready EXCEPT ![s] =
                 IF ~event[s] /\ pc[s] = "wait" THEN Append(rdy, ClientTask) ELSE rdy]

\* Mutant of raise_graceful_exit: the handler flips the event instead of
\* setting it.
raise_graceful_exit_toggle(s) ==
  /\ event' = [event EXCEPT ![s] = ~@]
  /\ ready' = [ready EXCEPT ![s] =
                 IF ~event[s] /\ pc[s] = "wait" THEN Append(@, ClientTask) ELSE @]

\* movesensor.py:91-92: the signal handler runs on the main thread between
\* two steps of the loop.
raise_graceful_exit(s) == EventSet(s, ready[s])

\* movesensor.py:94-96: the transport calls it from the loop.
disconnect_callback(s) == EventSet(s, Tail(ready[s]))

\* movesensor.py:145-165, from the return of disconnected_event.wait() to the
\* next suspending await.
Teardown(s) ==
  LET status == link[s] IN
  IF status
  THEN /\ pc' = [pc EXCEPT ![s] = "unsubscribe"]
       /\ res' = [res EXCEPT ![s] = "pending"]
       /\ ready' = [ready EXCEPT ![s] = Tail(@)]
       /\ Logged(s, "unsubscribe")
       /\ UNCHANGED <<queue, enq, cpc>>
  ELSE /\ Put(s, None, Tail(ready[s]))
       /\ pc' = [pc EXCEPT ![s] = "sleep"]
       /\ res' = [res EXCEPT ![s] = "pending"]
       /\ Logged(s, "sentinel")

\* ------------------------------------------------------------- main()
\* asyncio.run(main(...)) at movesensor.py:194 (worker) and :213 (main);
\* main() creates the queue and gathers the two tasks (movesensor.py:173-177).
Start(s) ==
  /\ run[s] = "idle"
  /\ run' = [run EXCEPT ![s] = "running"]
  /\ ready' = [ready EXCEPT ![s] = <<ClientTask, ConsumerTask>>]
  /\ UNCHANGED <<pc, cpc, res, address, exc, event, sigHandler, link, notifying,
                 streaming, queue, enq, DATA_POINTS, files, fall_state, nsent,
                 interrupts, log, hlog>>

\* Both tasks finished: gather returns and main() ends (movesensor.py:177-178).
\* asyncio.run cancels what is left on the loop.
MainReturn(s) ==
  /\ run[s] = "running"
  /\ pc[s] = "done"
  /\ cpc[s] = "done"
  /\ run' = [run EXCEPT ![s] = "done"]
  /\ ready' = [ready EXCEPT ![s] = <<>>]
  /\ UNCHANGED <<pc, cpc, res, address, exc, event, sigHandler, link, notifying,
                 streaming, queue, enq, DATA_POINTS, files, fall_state, nsent,
                 interrupts, log, hlog>>

\* run_ble_client raised: gather re-raises in main() (movesensor.py:177), and
\* asyncio.run cancels the tasks still pending, the consumer among them.
MainRaise(s) ==
  /\ run[s] = "running"
  /\ pc[s] = "failed"
  /\ run' = [run EXCEPT ![s] = "raised"]
  /\ cpc' = [cpc EXCEPT ![s] = IF @ = "done" THEN "done" ELSE "cancelled"]
  /\ ready' = [ready EXCEPT ![s] = <<>>]
  /\ UNCHANGED <<pc, res, address, exc, event, sigHandler, link, notifying,
                 streaming, queue, enq, DATA_POINTS, files, fall_state, nsent,
                 interrupts, log, hlog>>

\* ------------------------------------------------------- run_ble_client
\* movesensor.py:77: the task runs up to `await discover()`.
Client_begin(s) ==
  /\ Turn(s, "client")
  /\ pc[s] = "begin"
  /\ pc' = [pc EXCEPT ![s] = "discover"]
  /\ res' = [res EXCEPT ![s] = "pending"]
  /\ ready' = [ready EXCEPT ![s] = Tail(@)]
  /\ Logged(s, "discover")
  /\ UNCHANGED <<run, cpc, address, exc, event, sigHandler, link, notifying,
                 streaming, queue, enq, DATA_POINTS, files, fall_state, nsent,
                 interrupts, hlog>>

\* movesensor.py:77-86, 119-122, 167-170: discover() returns devices once the
\* loop has nothing else ready; the match loop runs; then either the
\* connection is opened or the sentinel is put and the task returns.
Client_discover(s, devices) ==
  /\ run[s] = "running"
  /\ pc[s] = "discover"
  /\ ready[s] = <<>>
  /\ LET a == FirstMatch(devices, SENSOR_ID)
         found == a # "None"
     IN /\ address' = [address EXCEPT ![s] = a]
        /\ IF found
           THEN /\ pc' = [pc EXCEPT ![s] = "connect"]
                /\ Logged(s, "connect")
                /\ UNCHANGED <<res, ready, queue, enq, cpc>>
           ELSE /\ Put(s, None, ready[s])
                /\ pc' = [pc EXCEPT ![s] = "done"]
                /\ res' = [res EXCEPT ![s] = "none"]
                /\ Logged(s, "sentinel")
  /\ UNCHANGED <<run, exc, event, sigHandler, link, notifying, streaming,
                 DATA_POINTS, files, fall_state, nsent, interrupts, hlog>>

\* BleakClient.__aenter__ (movesensor.py:120-122) completes.
ConnectDone(s, ok) ==
  /\ run[s] = "running"
  /\ pc[s] = "connect"
  /\ res[s] = "pending"
  /\ Complete(s, ok)
  /\ link' = [link EXCEPT ![s] = ok]
  /\ UNCHANGED <<run, pc, cpc, address, exc, event, sigHandler, notifying,
                 streaming, queue, enq, DATA_POINTS, files, fall_state, nsent,
                 interrupts, log, hlog>>

\* movesensor.py:120-131.  A failed connect raises out of run_ble_client
\* before the body is entered.  signal.signal (126-127) only works on the main
\* thread: on the worker it raises ValueError inside the body.
Client_connect(s) ==
  /\ Turn(s, "client")
  /\ pc[s] = "connect"
  /\ IF res[s] = "fail"
     THEN /\ pc' = [pc EXCEPT ![s] = "failed"]
          /\ res' = [res EXCEPT ![s] = "none"]
          /\ ready' = [ready EXCEPT ![s] = Tail(@)]
          /\ UNCHANGED <<exc, sigHandler, log>>
     ELSE IF s = "main"
          THEN /\ sigHandler' = TRUE
               /\ pc' = [pc EXCEPT ![s] = "start_notify"]
               /\ res' = [res EXCEPT ![s] = "pending"]
               /\ ready' = [ready EXCEPT ![s] = Tail(@)]
               /\ Logged(s, "start_notify")
               /\ UNCHANGED exc
          ELSE /\ RaiseInBody(s)
               /\ UNCHANGED sigHandler
  /\ UNCHANGED <<run, cpc, address, event, link, notifying, streaming, queue,
                 enq, DATA_POINTS, files, fall_state, nsent, interrupts, hlog>>

\* client.start_notify (movesensor.py:131) completes; it cannot succeed on a
\* dropped link.
StartNotifyDone(s, ok) ==
  /\ run[s] = "running"
  /\ pc[s] = "start_notify"
  /\ res[s] = "pending"
  /\ ok => link[s]
  /\ Complete(s, ok)
  /\ notifying' = [notifying EXCEPT ![s] = ok]
  /\ UNCHANGED <<run, pc, cpc, address, exc, event, sigHandler, link,
                 streaming, queue, enq, DATA_POINTS, files, fall_state, nsent,
                 interrupts, log, hlog>>

\* Mutant of Client_start_notify: a start_notify that failed is ignored and
\* the subscribe command is written all the same.
Client_start_notify_nocheck(s) ==
  /\ Turn(s, "client")
  /\ pc[s] = "start_notify"
  /\ pc' = [pc EXCEPT ![s] = "subscribe"]
  /\ res' = [res EXCEPT ![s] = "pending"]
  /\ ready' = [ready EXCEPT ![s] = Tail(@)]
  /\ Logged(s, "subscribe")
  /\ UNCHANGED <<run, cpc, address, exc, event, sigHandler, link, notifying,
                 streaming, queue, enq, DATA_POINTS, files, fall_state, nsent,
                 interrupts, hlog>>

\* movesensor.py:131-141
Client_start_notify(s) ==
  /\ Turn(s, "client")
  /\ pc[s] = "start_notify"
  /\ IF res[s] = "fail"
     THEN RaiseInBody(s)
     ELSE /\ pc' = [pc EXCEPT ![s] = "subscribe"]
          /\ res' = [res EXCEPT ![s] = "pending"]
          /\ ready' = [ready EXCEPT ![s] = Tail(@)]
          /\ Logged(s, "subscribe")
          /\ UNCHANGED exc
  /\ UNCHANGED <<run, cpc, address, event, sigHandler, link, notifying,
                 streaming, queue, enq, DATA_POINTS, files, fall_state, nsent,
                 interrupts, hlog>>

\* client.write_gatt_char(..., response=True) (movesensor.py:137-141, 156-158)
\* completes; it cannot succeed on a dropped link.  An acknowledged subscribe
\* starts the device's stream.
WriteDone(s, ok) ==
  /\ run[s] = "running"
  /\ pc[s] \in {"subscribe", "unsubscribe"}
  /\ res[s] = "pending"
  /\ ok => link[s]
  /\ Complete(s, ok)
  /\ streaming' = [streaming EXCEPT ![s] = @ \/ (ok /\ pc[s] = "subscribe")]
  /\ UNCHANGED <<run, pc, cpc, address, exc, event, sigHandler, link,
                 notifying, queue, enq, DATA_POINTS, files, fall_state, nsent,
                 interrupts, log, hlog>>

\* movesensor.py:137-144: after the subscribe write the task waits on
\* disconnected_event; an event that is already set does not suspend it.
Client_subscribe(s) ==
  /\ Turn(s, "client")
  /\ pc[s] = "subscribe"
  /\ IF res[s] = "fail"
     THEN /\ RaiseInBody(s)
          /\ UNCHANGED <<queue, enq, cpc>>
     ELSE IF event[s]
          THEN /\ Teardown(s)
               /\ UNCHANGED exc
          ELSE /\ pc' = [pc EXCEPT ![s] = "wait"]
               /\ res' = [res EXCEPT ![s] = "none"]
               /\ ready' = [ready EXCEPT ![s] = Tail(@)]
               /\ UNCHANGED <<exc, log, queue, enq, cpc>>
  /\ UNCHANGED <<run, address, event, sigHandler, link, notifying, streaming,
                 DATA_POINTS, files, fall_state, nsent, interrupts, hlog>>

\* movesensor.py:144-165: disconnected_event.wait() returns.
Client_wait(s) ==
  /\ Turn(s, "client")
  /\ pc[s] = "wait"
  /\ Teardown(s)
  /\ UNCHANGED <<run, address, exc, event, sigHandler, link, notifying,
                 streaming, DATA_POINTS, files, fall_state, nsent, interrupts,
                 hlog>>

\* movesensor.py:156-160
Client_unsubscribe(s) ==
  /\ Turn(s, "client")
  /\ pc[s] = "unsubscribe"
  /\ IF res[s] = "fail"
     THEN RaiseInBody(s)
     ELSE /\ pc' = [pc EXCEPT ![s] = "stop_notify"]
          /\ res' = [res EXCEPT ![s] = "pending"]
          /\ ready' = [ready EXCEPT ![s] = Tail(@)]
          /\ Logged(s, "stop_notify")
          /\ UNCHANGED exc
  /\ UNCHANGED <<run, cpc, address, event, sigHandler, link, notifying,
                 streaming, queue, enq, DATA_POINTS, files, fall_state, nsent,
                 interrupts, hlog>>

\* client.stop_notify (movesensor.py:160) completes; on success the transport
\* no longer calls notification_handler.
StopNotifyDone(s, ok) ==
  /\ run[s] = "running"
  /\ pc[s] = "stop_notify"
  /\ res[s] = "pending"
  /\ ok => link[s]
  /\ Complete(s, ok)
  /\ notifying' = [notifying EXCEPT ![s] = @ /\ ~ok]
  /\ UNCHANGED <<run, pc, cpc, address, exc, event, sigHandler, link,
                 streaming, queue, enq, DATA_POINTS, files, fall_state, nsent,
                 interrupts, log, hlog>>

\* movesensor.py:160-165
Client_stop_notify(s) ==
  /\ Turn(s, "client")
  /\ pc[s] = "stop_notify"
  /\ IF res[s] = "fail"
     THEN /\ RaiseInBody(s)
          /\ UNCHANGED <<queue, enq, cpc>>
     ELSE /\ Put(s, None, Tail(ready[s]))
          /\ pc' = [pc EXCEPT ![s] = "sleep"]
          /\ res' = [res EXCEPT ![s] = "pending"]
          /\ Logged(s, "sentinel")
          /\ UNCHANGED exc
  /\ UNCHANGED <<run, address, event, sigHandler, link, notifying, streaming,
                 DATA_POINTS, files, fall_state, nsent, interrupts, hlog>>

\* asyncio.sleep(1.0) (movesensor.py:165) elapses.
SleepDone(s) ==
  /\ run[s] = "running"
  /\ pc[s] = "sleep"
  /\ res[s] = "pending"
  /\ Complete(s, TRUE)
  /\ UNCHANGED <<run, pc, cpc, address, exc, event, sigHandler, link,
                 notifying, streaming, queue, enq, DATA_POINTS, files,
                 fall_state, nsent, interrupts, log, hlog>>

\* movesensor.py:165 and the end of the `async with` block: __aexit__
\* disconnects.
Client_sleep(s) ==
  /\ Turn(s, "client")
  /\ pc[s] = "sleep"
  /\ pc' = [pc EXCEPT ![s] = "aexit"]
  /\ res' = [res EXCEPT ![s] = "pending"]
  /\ ready' = [ready EXCEPT ![s] = Tail(@)]
  /\ Logged(s, "disconnect")
  /\ UNCHANGED <<run, cpc, address, exc, event, sigHandler, link, notifying,
                 streaming, queue, enq, DATA_POINTS, files, fall_state, nsent,
                 interrupts, hlog>>

\* The disconnect of BleakClient.__aexit__ completes: the link is released.
DisconnectDone(s) ==
  /\ run[s] = "running"
  /\ pc[s] = "aexit"
  /\ res[s] = "pending"
  /\ Complete(s, TRUE)
  /\ link' = [link EXCEPT ![s] = FALSE]
  /\ notifying' = [notifying EXCEPT ![s] = FALSE]
  /\ streaming' = [streaming EXCEPT ![s] = FALSE]
  /\ UNCHANGED <<run, pc, cpc, address, exc, event, sigHandler, queue, enq,
                 DATA_POINTS, files, fall_state, nsent, interrupts, log, hlog>>

\* Mutant of Client_aexit: the `else` of movesensor.py:167 is missing, so a
\* client that leaves the `async with` block normally goes on to the
\* queue.put(None) of line 169.
Client_aexit_fallthrough(s) ==
  /\ Turn(s, "client")
  /\ pc[s] = "aexit"
  /\ pc' = [pc EXCEPT ![s] = IF exc[s] THEN "failed" ELSE "done"]
  /\ res' = [res EXCEPT ![s] = "none"]
  /\ IF exc[s]
     THEN /\ ready' = [ready EXCEPT ![s] = Tail(@)]
          /\ UNCHANGED <<queue, enq, cpc>>
     ELSE Put(s, None, Tail(ready[s]))
  /\ UNCHANGED <<run, address, exc, event, sigHandler, link, notifying,
                 streaming, DATA_POINTS, files, fall_state, nsent,
                 interrupts, log, hlog>>

\* The `async with` block is left (movesensor.py:120-165): run_ble_client
\* returns, or the exception raised in the body propagates.
Client_aexit(s) ==
  /\ Turn(s, "client")
  /\ pc[s] = "aexit"
  /\ pc' = [pc EXCEPT ![s] = IF exc[s] THEN "failed" ELSE "done"]
  /\ res' = [res EXCEPT ![s] = "none"]
  /\ ready' = [ready EXCEPT ![s] = Tail(@)]
  /\ UNCHANGED <<run, cpc, address, exc, event, sigHandler, link, notifying,
                 streaming, queue, enq, DATA_POINTS, files, fall_state, nsent,
                 interrupts, log, hlog>>


\* ------------------------------------------------- notification_handler
\* The transport delivers the next notification: the coroutine callback is
\* scheduled as a task on the session's loop (movesensor.py:131 registers it).
Notification(s, n) ==
  /\ run[s] = "running"
  /\ link[s]
  /\ notifying[s]
  /\ streaming[s]
  /\ nsent < MaxNotifs
  /\ nsent' = nsent + 1
  /\ ready' = [ready EXCEPT ![s] = Append(@, HandlerTask(Payload(nsent + 1, n)))]
  /\ UNCHANGED <<run, pc, cpc, res, address, exc, event, sigHandler, link,
                 notifying, streaming, queue, enq, DATA_POINTS, files,
                 fall_state, interrupts, log, hlog>>

\* Mutant of notification_handler: a failing accessor takes the session down
\* instead of ending the handler's own task.
notification_handler_crash(s, data) ==
  /\ hlog' = [hlog EXCEPT ![s] = Append(@, [ok |-> Decodable(data), fs |-> fall_state])]
  /\ IF Decodable(data)
     THEN /\ Put(s, Acceleration(data, fall_state), Tail(ready[s]))
          /\ UNCHANGED pc
     ELSE /\ ready' = [ready EXCEPT ![s] = <<ClientTask>>]
          /\ pc' = [pc EXCEPT ![s] = "failed"]
          /\ UNCHANGED <<queue, enq, cpc>>
  /\ UNCHANGED <<run, res, address, exc, event, sigHandler, link,
                 notifying, streaming, DATA_POINTS, files, fall_state, nsent,
                 interrupts, log>>

\* Mutant of notification_handler: the accessors read past the end of a short
\* buffer and take the missing bytes as zero.
notification_handler_pad(s, data) ==
  LET padded == [i \in 1..18 |-> IF i <= Len(data) THEN data[i] ELSE 0] IN
  /\ hlog' = [hlog EXCEPT ![s] = Append(@, [ok |-> TRUE, fs |-> fall_state])]
  /\ Put(s, Acceleration(padded, fall_state), Tail(ready[s]))
  /\ UNCHANGED <<run, pc, res, address, exc, event, sigHandler, link,
                 notifying, streaming, DATA_POINTS, files, fall_state, nsent,
                 interrupts, log>>

\* movesensor.py:98-117.  An accessor that fails raises inside the handler's
\* own task: nothing is put and nothing else is affected.  Otherwise the
\* Acceleration is built with the current annotation.fall_state and put.
notification_handler(s, data) ==
  /\ hlog' = [hlog EXCEPT ![s] = Append(@, [ok |-> Decodable(data), fs |-> fall_state])]
  /\ IF Decodable(data)
     THEN Put(s, Acceleration(data, fall_state), Tail(ready[s]))
     ELSE /\ ready' = [ready EXCEPT ![s] = Tail(@)]
          /\ UNCHANGED <<queue, enq, cpc>>
  /\ UNCHANGED <<run, pc, res, address, exc, event, sigHandler, link,
                 notifying, streaming, DATA_POINTS, files, fall_state, nsent,
                 interrupts, log>>

Handler_run(s) ==
  /\ Turn(s, "handler")
  /\ notification_handler(s, Head(ready[s]).data)

\* --------------------------------------------------- run_queue_consumer
\* Mutant of AppendPoint: the item is inserted at the front.
AppendPoint_front(dp, data) == <<data>> \o dp

\* movesensor.py:70
AppendPoint(dp, data) == Append(dp, data)

\* Mutant of ConsumerLoop: the sentinel flushes but the loop is not left.
RECURSIVE ConsumerLoop_nobreak(_, _)
ConsumerLoop_nobreak(q, dp) ==
  IF q = <<>> THEN [queue |-> q, dp |-> dp, flushed |-> <<>>, done |-> FALSE]
  ELSE IF Head(q) = None
       THEN [queue |-> Tail(q), dp |-> dp, flushed |-> <<save_as_csv(dp)>>,
             done |-> FALSE]
       ELSE ConsumerLoop_nobreak(Tail(q), AppendPoint(dp, Head(q)))

\* movesensor.py:60-70, from one suspension in queue.get() to the next or to
\* the break: items are taken while the queue holds any.
RECURSIVE ConsumerLoop(_, _)
ConsumerLoop(q, dp) ==
  IF q = <<>> THEN [queue |-> q, dp |-> dp, flushed |-> <<>>, done |-> FALSE]
  ELSE IF Head(q) = None
       THEN [queue |-> Tail(q), dp |-> dp, flushed |-> <<save_as_csv(dp)>>,
             done |-> TRUE]
       ELSE ConsumerLoop(Tail(q), AppendPoint(dp, Head(q)))

Consumer_run(s) ==
  /\ Turn(s, "consumer")
  /\ LET r == ConsumerLoop(queue[s], DATA_POINTS)
     IN /\ queue' = [queue EXCEPT ![s] = r.queue]
        /\ DATA_POINTS' = r.dp
        /\ files' = files \o [i \in 1..Len(r.flushed) |->
                                [by |-> s, rows |-> r.flushed[i]]]
        /\ cpc' = [cpc EXCEPT ![s] = IF r.done THEN "done" ELSE "get"]
  /\ ready' = [ready EXCEPT ![s] = Tail(@)]
  /\ UNCHANGED <<run, pc, res, address, exc, event, sigHandler, link,
                 notifying, streaming, enq, fall_state, nsent, interrupts, log,
                 hlog>>

\* ------------------------------------------------------- disconnect triggers
\* The device drops the link: client.is_connected (movesensor.py:150) turns
\* false, the transport stops delivering, and the disconnected_callback given
\* at movesensor.py:121 is scheduled on the loop.
DeviceDisconnect(s) ==
  /\ run[s] = "running"
  /\ link[s]
  /\ link' = [link EXCEPT ![s] = FALSE]
  /\ notifying' = [notifying EXCEPT ![s] = FALSE]
  /\ streaming' = [streaming EXCEPT ![s] = FALSE]
  /\ ready' = [ready EXCEPT ![s] = Append(@, DisconnectedTask)]
  /\ UNCHANGED <<run, pc, cpc, res, address, exc, event, sigHandler, queue,
                 enq, DATA_POINTS, files, fall_state, nsent, interrupts, log,
                 hlog>>

\* The loop runs the scheduled disconnected_callback.
Callback_run(s) ==
  /\ Turn(s, "disconnected")
  /\ disconnect_callback(s)
  /\ UNCHANGED <<run, pc, cpc, res, address, exc, sigHandler, link, notifying,
                 streaming, queue, enq, DATA_POINTS, files, fall_state, nsent,
                 interrupts, log, hlog>>

\* SIGINT/SIGTERM while the main thread is inside asyncio.run (movesensor.py:
\* 213) and raise_graceful_exit is installed (126-127).  The handler closes
\* over the main session's disconnected_event.
Interrupt_graceful ==
  /\ run["main"] = "running"
  /\ sigHandler
  /\ interrupts < MaxInterrupts
  /\ interrupts' = interrupts + 1
  /\ raise_graceful_exit("main")
  /\ UNCHANGED <<run, pc, cpc, res, address, exc, sigHandler, link, notifying,
                 streaming, queue, enq, DATA_POINTS, files, fall_state, nsent,
                 log, hlog>>

\* SIGINT/SIGTERM before movesensor.py:126-127 ran: the default disposition
\* ends asyncio.run, which cancels both tasks.
Interrupt_default ==
  /\ run["main"] = "running"
  /\ ~sigHandler
  /\ interrupts < MaxInterrupts
  /\ interrupts' = interrupts + 1
  /\ run' = [run EXCEPT !["main"] = "raised"]
  /\ pc' = [pc EXCEPT !["main"] = IF @ = "done" THEN "done" ELSE "cancelled"]
  /\ cpc' = [cpc EXCEPT !["main"] = IF @ = "done" THEN "done" ELSE "cancelled"]
  /\ ready' = [ready EXCEPT !["main"] = <<>>]
  /\ UNCHANGED <<res, address, exc, event, sigHandler, link, notifying,
                 streaming, queue, enq, DATA_POINTS, files, fall_state, nsent,
                 log, hlog>>

\* ------------------------------------------------------------ annotation
\* The Qt event loop, which dispatches button clicks, runs only in app.exec()
\* (movesensor.py:215), after asyncio.run on the main thread has returned.
\* Mutant of fall_button_clicked: the Readings already collected follow the
\* new label, as if each held the annotation object instead of its value.
fall_button_clicked_retro ==
  /\ run["main"] = "done"
  /\ fall_state' = "Start"
  /\ DATA_POINTS' = [i \in 1..Len(DATA_POINTS) |->
                       [DATA_POINTS[i] EXCEPT !.fall_state = "Start"]]
  /\ UNCHANGED <<run, pc, cpc, res, address, exc, event, sigHandler, link,
                 notifying, streaming, ready, queue, enq, files,
                 nsent, interrupts, log, hlog>>

\* annotation.py:49-51
fall_button_clicked ==
  /\ run["main"] = "done"
  /\ fall_state' = "Start"
  /\ UNCHANGED <<run, pc, cpc, res, address, exc, event, sigHandler, link,
                 notifying, streaming, ready, queue, enq, DATA_POINTS, files,
                 nsent, interrupts, log, hlog>>

\* annotation.py:53-55
not_fall_button_clicked ==
  /\ run["main"] = "done"
  /\ fall_state' = "Stop"
  /\ UNCHANGED <<run, pc, cpc, res, address, exc, event, sigHandler, link,
                 notifying, streaming, ready, queue, enq, DATA_POINTS, files,
                 nsent, interrupts, log, hlog>>

\* ------------------------------------------------------------------ Next
Next ==
  \/ \E s \in Sessions : Start(s)
  \/ \E s \in Sessions : MainReturn(s)
  \/ \E s \in Sessions : MainRaise(s)
  \/ \E s \in Sessions : Client_begin(s)
  \/ \E s \in Sessions : \E devices \in DiscoverResults : Client_discover(s, devices)
  \/ \E s \in Sessions : \E ok \in BOOLEAN : ConnectDone(s, ok)
  \/ \E s \in Sessions : Client_connect(s)
  \/ \E s \in Sessions : \E ok \in BOOLEAN : StartNotifyDone(s, ok)
  \/ \E s \in Sessions : Client_start_notify(s)
  \/ \E s \in Sessions : \E ok \in BOOLEAN : WriteDone(s, ok)
  \/ \E s \in Sessions : Client_subscribe(s)
  \/ \E s \in Sessions : Client_wait(s)
  \/ \E s \in Sessions : Client_unsubscribe(s)
  \/ \E s \in Sessions : \E ok \in BOOLEAN : StopNotifyDone(s, ok)
  \/ \E s \in Sessions : Client_stop_notify(s)
  \/ \E s \in Sessions : SleepDone(s)
  \/ \E s \in Sessions : Client_sleep(s)
  \/ \E s \in Sessions : DisconnectDone(s)
  \/ \E s \in Sessions : Client_aexit(s)
  \/ \E s \in Sessions : \E n \in PayloadLens : Notification(s, n)
  \/ \E s \in Sessions : Handler_run(s)
  \/ \E s \in Sessions : Consumer_run(s)
  \/ \E s \in Sessions : DeviceDisconnect(s)
  \/ \E s \in Sessions : Callback_run(s)
  \/ Interrupt_graceful
  \/ Interrupt_default
  \/ fall_button_clicked
  \/ not_fall_button_clicked

Spec == Init /\ [][Next]_vars


\* ------------------------------------------------------------ vocabulary
Last(seq) == seq[Len(seq)]

Count(seq, x) == Cardinality({i \in 1..Len(seq) : seq[i] = x})

\* The Readings of a sequence of queue items, in order.
Readings(seq) == SelectSeq(seq, LAMBDA x : x # None)

\* The items the consumer of s has taken off its queue, in order.
Got(s) == SubSeq(enq[s], 1, Len(enq[s]) - Len(queue[s]))

\* The files written by the consumer of s.
FilesBy(s) == {k \in 1..Len(files) : files[k].by = s}

\* The session of s is over: asyncio.run(main(...)) has returned or raised.
Ended(s) == run[s] \in {"done", "raised"}

\* The transport call the client of s issued before __aexit__'s disconnect,
\* when an exception left the `async with` body.
RaisedAfter(s) ==
  IF exc[s] /\ Len(log[s]) >= 2 /\ Last(log[s]) = "disconnect"
  THEN log[s][Len(log[s]) - 1]
  ELSE "nothing"

\* ----------------------------------------------------------------- C1
\* C1: the sentinel is the last item ever put on a session's queue: no
\* Reading is put after it.
C1_SentinelIsLast ==
  \A s \in Sessions :
    \A i \in 1..Len(enq[s]) : enq[s][i] = None => i = Len(enq[s])

\* ----------------------------------------------------------------- C2
\* C2: a session whose discovery matched a device but whose connect failed
\* has, once it is over, put the sentinel and flushed.
C2_ConnectFailureFlushes ==
  \A s \in Sessions :
    (Ended(s) /\ pc[s] = "failed" /\ Last(log[s]) = "connect")
      => (Count(enq[s], None) = 1 /\ FilesBy(s) # {})

\* ----------------------------------------------------------------- C3
\* C3: a session whose discovery matched nothing puts the sentinel, never
\* opens a connection, and its consumer flushes the header row alone.
C3_NoMatchHeaderOnly ==
  \A s \in Sessions :
    (address[s] = "None" /\ pc[s] = "done")
      => /\ Count(enq[s], None) = 1
         /\ \A i \in 1..Len(log[s]) : log[s][i] \in {"discover", "sentinel"}
         /\ \A k \in FilesBy(s) : files[k].rows = <<head>>
         /\ cpc[s] = "done" => FilesBy(s) # {}

\* ----------------------------------------------------------------- C6
\* C6: a session whose start_notify or subscribe write failed has, once it is
\* over, put the sentinel and flushed.
C6_SubscribeFailureFlushes ==
  \A s \in Sessions :
    (Ended(s) /\ RaisedAfter(s) \in {"start_notify", "subscribe"})
      => (Count(enq[s], None) = 1 /\ FilesBy(s) # {})

\* ----------------------------------------------------------------- C7
\* C7: a session whose unsubscribe write or stop_notify failed during
\* teardown has, once it is over, put the sentinel and released the link.
C7_TeardownFailureNonFatal ==
  \A s \in Sessions :
    (Ended(s) /\ RaisedAfter(s) \in {"unsubscribe", "stop_notify"})
      => (Count(enq[s], None) = 1 /\ ~link[s])


\* ----------------------------------------------------------------- C4
\* C4: in every file written, any two Reading rows stand in the order in
\* which their Readings were put on one queue, which is the order in which
\* their notifications arrived (the timestamp is the arrival number).
C4_OutputInArrivalOrder ==
  \A k \in 1..Len(files) :
    LET rows == Tail(files[k].rows) IN
    \A i, j \in 1..Len(rows) :
      i < j =>
        /\ rows[i][1] < rows[j][1]
        /\ \E s \in Sessions : \E a, b \in 1..Len(enq[s]) :
             /\ a < b
             /\ enq[s][a] # None /\ as_csv_field(enq[s][a]) = rows[i]
             /\ enq[s][b] # None /\ as_csv_field(enq[s][b]) = rows[j]

\* A file with two Reading rows has been written.
C4_Witness ==
  \E k \in 1..Len(files) : Len(files[k].rows) >= 3

\* ----------------------------------------------------------------- C5
\* C5: the consumer of a session writes a file exactly when it has taken the
\* sentinel off its queue, writes at most one, is finished from then on and
\* takes nothing off the queue after the sentinel.
C5_FlushOnlyOnSentinel ==
  \A s \in Sessions :
    /\ Cardinality(FilesBy(s)) <= 1
    /\ FilesBy(s) # {} <=> Count(Got(s), None) >= 1
    /\ FilesBy(s) # {} <=> cpc[s] = "done"
    /\ \A i \in 1..Len(Got(s)) : Got(s)[i] = None => i = Len(Got(s))

\* A consumer has taken a Reading and then the sentinel, has flushed, and an
\* item put after the sentinel is left on its queue.
C5_Witness ==
  \E s \in Sessions :
    /\ cpc[s] = "done"
    /\ Cardinality(FilesBy(s)) = 1
    /\ Len(Got(s)) >= 2
    /\ queue[s] # <<>>

\* ----------------------------------------------------------------- C8
\* C8: a run of notification_handler on a payload whose decode fails puts
\* nothing on the queue and leaves the client task, the link, the
\* registration and the tasks scheduled after it as they were; a run on a
\* well-formed payload puts that payload's Reading.
C8_DecodeFailureIsolated ==
  [][ \A s \in Sessions :
        Len(hlog'[s]) > Len(hlog[s]) =>
          LET d == Head(ready[s]).data IN
          IF Decodable(d)
          THEN /\ Len(enq'[s]) = Len(enq[s]) + 1
               /\ Last(enq'[s]) # None
               /\ Last(enq'[s]).timestamp = get_uint_32(d, 2)
          ELSE /\ enq'[s] = enq[s]
               /\ queue'[s] = queue[s]
               /\ pc'[s] = pc[s]
               /\ run'[s] = run[s]
               /\ link'[s] = link[s]
               /\ notifying'[s] = notifying[s]
               /\ ready'[s] = Tail(ready[s]) ]_vars

\* The first notification was too short and was dropped, the second was
\* decoded and put, and the session is still waiting on disconnected_event.
C8_Witness ==
  \E s \in Sessions :
    /\ Len(hlog[s]) = 2
    /\ ~hlog[s][1].ok
    /\ hlog[s][2].ok
    /\ pc[s] = "wait"
    /\ Len(enq[s]) = 1
    /\ enq[s][1].timestamp = 2

\* ----------------------------------------------------------------- C9
\* C9: the fall_state of every Reading, wherever it is (queue, DATA_POINTS,
\* a written file), is the value annotation.fall_state had when its
\* notification was decoded.
DecodedLabels(s) ==
  LET ok == SelectSeq(hlog[s], LAMBDA e : e.ok)
  IN [i \in 1..Len(ok) |-> ok[i].fs]

PutLabels(s) ==
  LET rs == Readings(enq[s])
  IN [i \in 1..Len(rs) |-> rs[i].fall_state]

WasPut(r) ==
  \E s \in Sessions : \E i \in 1..Len(enq[s]) : enq[s][i] = r

C10_StepsOnce ==
  \A s \in Sessions :
    /\ \A step \in {"unsubscribe", "stop_notify", "sentinel", "disconnect"} :
         Count(log[s], step) <= 1
    /\ Count(enq[s], None) = Count(log[s], "sentinel")
    /\ Cardinality(FilesBy(s)) <= 1
    /\ pc[s] = "done" => Count(enq[s], None) = 1
    /\ run[s] = "done" => Cardinality(FilesBy(s)) = 1

C10_RepeatIsNoOp ==
  (interrupts' > interrupts /\ sigHandler /\ event["main"]) =>
    UNCHANGED <<run, pc, cpc, res, address, exc, event, sigHandler, link,
                notifying, streaming, ready, queue, enq, DATA_POINTS, files,
                fall_state, nsent, log, hlog>>

C10_IdempotentCancel == [] C10_StepsOnce /\ [][C10_RepeatIsNoOp]_vars

\* The interrupt was delivered twice to raise_graceful_exit and the main
\* session tore down, put one sentinel and wrote one file.
C10_Witness ==
  /\ interrupts >= 2
  /\ sigHandler
  /\ run["main"] = "done"
  /\ Count(log["main"], "unsubscribe") = 1
  /\ Count(log["main"], "stop_notify") = 1
  /\ Count(enq["main"], None) = 1
  /\ Cardinality(FilesBy("main")) = 1

\* ---------------------------------------------------------------- C11
\* C11: an interrupt delivered at any point of the main session's life sets
\* that session's disconnected_event, and a session that was interrupted has,
\* once it is over, put the sentinel.
C11_InterruptIsGraceful ==
  interrupts >= 1 =>
    /\ event["main"]
    /\ Ended("main") => Count(enq["main"], None) = 1

\* ---------------------------------------------------------------- C12
\* The client of s was subscribed when it found disconnected_event set: the
\* call it issued after the subscribe write is the first step of teardown.
SignalledWhileSubscribed(s) ==
  \E i \in 1..(Len(log[s]) - 1) :
    /\ log[s][i] = "subscribe"
    /\ log[s][i + 1] \in {"unsubscribe", "sentinel"}

\* C12: a session that found disconnected_event set while subscribed has,
\* once it is over, put the sentinel and finished, its consumer has flushed
\* and finished, and main has returned.
C12_SignalledSessionCompletes ==
  \A s \in Sessions :
    (Ended(s) /\ SignalledWhileSubscribed(s))
      => /\ Count(enq[s], None) = 1
         /\ pc[s] = "done"
         /\ cpc[s] = "done"
         /\ FilesBy(s) # {}
         /\ run[s] = "done"

\* ---------------------------------------------------------------- C13
\* C13: at most one session is started in a program run, and no two sessions
\* are alive at the same time.
C13_OneSession ==
  /\ Cardinality({s \in Sessions : run[s] # "idle"}) <= 1
  /\ Cardinality({s \in Sessions : run[s] = "running"}) <= 1

\* ---------------------------------------------------------------- C14
\* Inputs of the decode specification: buffers of every length from empty to
\* past the 18-byte packet, with bytes that differ from one position to the
\* next (kept below 128 so that a 32-bit field stays below 2^31).
MaxBufLen == 20
MaxSeed == 5

Buffer(k, n) == [i \in 1..n |-> (k * i) % 128]

DecodeBuffers == {Buffer(k, n) : k \in 1..MaxSeed, n \in 0..MaxBufLen}

\* The offsets notification_handler asks for (movesensor.py:103, 108-112).
FieldOffsets == {2, 6, 10, 14}

\* The main session is subscribed and waiting on disconnected_event, its
\* consumer is suspended in queue.get(), and the transport has scheduled
\* notification_handler for one buffer.
InitDecode ==
  /\ run = [s \in Sessions |-> IF s = "main" THEN "running" ELSE "idle"]
  /\ pc = [s \in Sessions |-> IF s = "main" THEN "wait" ELSE "begin"]
  /\ cpc = [s \in Sessions |-> IF s = "main" THEN "get" ELSE "begin"]
  /\ res = [s \in Sessions |-> "none"]
  /\ address = [s \in Sessions |-> IF s = "main" THEN "a3" ELSE "None"]
  /\ exc = [s \in Sessions |-> FALSE]
  /\ event = [s \in Sessions |-> FALSE]
  /\ sigHandler = TRUE
  /\ link = [s \in Sessions |-> s = "main"]
  /\ notifying = [s \in Sessions |-> s = "main"]
  /\ streaming = [s \in Sessions |-> s = "main"]
  /\ \E d \in DecodeBuffers :
       ready = [s \in Sessions |-> IF s = "main" THEN <<HandlerTask(d)>> ELSE <<>>]
  /\ queue = [s \in Sessions |-> <<>>]
  /\ enq = [s \in Sessions |-> <<>>]
  /\ DATA_POINTS = <<>>
  /\ files = <<>>
  /\ fall_state = "default"
  /\ nsent = 1
  /\ interrupts = 0
  /\ log = [s \in Sessions |->
              IF s = "main"
              THEN <<"discover", "connect", "start_notify", "subscribe">>
              ELSE <<>>]
  /\ hlog = [s \in Sessions |-> <<>>]

NextDecode ==
  \/ Handler_run("main")
  \/ Consumer_run("main")

SpecDecode == InitDecode /\ [][NextDecode]_vars

\* The 32-bit little-endian value of four bytes.
LittleEndian(b) == b[1] + 256 * b[2] + 65536 * b[3] + 16777216 * b[4]

Issued(s, what) == \E i \in 1..Len(log[s]) : log[s][i] = what

\* C15: the unsubscribe write and stop_notify are issued only once
\* disconnected_event is set; stop_notify directly follows the unsubscribe
\* write and the sentinel directly follows stop_notify; and a client that
\* read is_connected as true, so that it issued the unsubscribe write, has
\* issued both steps and put the sentinel by the time it has left teardown.
C15_TeardownFollowsStatus ==
  \A s \in Sessions :
    /\ (Issued(s, "unsubscribe") \/ Issued(s, "stop_notify")) => event[s]
    /\ \A i \in 1..Len(log[s]) :
         log[s][i] = "stop_notify" => (i > 1 /\ log[s][i - 1] = "unsubscribe")
    /\ \A i \in 1..Len(log[s]) :
         (log[s][i] = "sentinel" /\ Issued(s, "unsubscribe"))
           => (i > 1 /\ log[s][i - 1] = "stop_notify")
    /\ (Issued(s, "unsubscribe") /\ pc[s] \in {"sleep", "aexit", "done", "failed"})
         => (Issued(s, "stop_notify") /\ Issued(s, "sentinel"))

\* ---------------------------------------------------------------- C16
\* The client of s issues the call `what` in this step.
Issues(s, what) ==
  /\ Len(log'[s]) = Len(log[s]) + 1
  /\ Last(log'[s]) = what

\* C16: start_notify is issued directly after a connect that succeeded, the
\* subscribe write directly after a start_notify that succeeded, and the
\* client comes to disconnected_event.wait() (or finds the event set and
\* passes it) only from a subscribe write that was acknowledged.
C16_Order ==
  \A s \in Sessions :
    /\ \A i \in 1..Len(log[s]) :
         log[s][i] = "start_notify" => (i > 1 /\ log[s][i - 1] = "connect")
    /\ \A i \in 1..Len(log[s]) :
         log[s][i] = "subscribe" => (i > 1 /\ log[s][i - 1] = "start_notify")
    /\ pc[s] = "wait" =>
         log[s] = <<"discover", "connect", "start_notify", "subscribe">>

C16_Steps ==
  \A s \in Sessions :
    /\ Issues(s, "start_notify") => (pc[s] = "connect" /\ res[s] = "ok")
    /\ Issues(s, "subscribe") => (pc[s] = "start_notify" /\ res[s] = "ok")
    /\ (pc[s] # "wait" /\ pc'[s] = "wait") => (pc[s] = "subscribe" /\ res[s] = "ok")
    /\ (pc[s] = "subscribe" /\ pc'[s] \in {"unsubscribe", "sleep"}) => res[s] = "ok"

C16_SubscribeSequence == [] C16_Order /\ [][C16_Steps]_vars

\* The main session waits on disconnected_event with notifications enabled
\* and the stream started.
C16_Witness ==
  /\ pc["main"] = "wait"
  /\ notifying["main"]
  /\ streaming["main"]
  /\ link["main"]
  /\ ~event["main"]
  /\ Issued("main", "start_notify")
  /\ Issued("main", "subscribe")

\* ---------------------------------------------------------------- C17
\* Inputs of the discovery specification: the devices of Devices and a second
\* matching device, whose name is the serial alone; lists of up to MaxScan
\* distinct devices in any order.
MaxScan == 3

NameExact == SENSOR_ID

ScanDevices == Devices \cup { [name |-> NameExact, address |-> "a4"] }

ScanResults ==
  { l \in UNION { [1..n -> ScanDevices] : n \in 0..MaxScan } :
      \A i, j \in 1..Len(l) : l[i] = l[j] => i = j }

\* The main session's client is suspended in `await discover()`
\* (movesensor.py:77), its consumer in queue.get(), and discover() has
\* returned: res holds the list it returned.
InitDiscover ==
  /\ run = [s \in Sessions |-> IF s = "main" THEN "running" ELSE "idle"]
  /\ pc = [s \in Sessions |-> IF s = "main" THEN "discover" ELSE "begin"]
  /\ cpc = [s \in Sessions |-> IF s = "main" THEN "get" ELSE "begin"]
  /\ \E l \in ScanResults :
       res = [s \in Sessions |-> IF s = "main" THEN l ELSE "none"]
  /\ address = [s \in Sessions |-> "None"]
  /\ exc = [s \in Sessions |-> FALSE]
  /\ event = [s \in Sessions |-> FALSE]
  /\ sigHandler = FALSE
  /\ link = [s \in Sessions |-> FALSE]
  /\ notifying = [s \in Sessions |-> FALSE]
  /\ streaming = [s \in Sessions |-> FALSE]
  /\ ready = [s \in Sessions |-> <<>>]
  /\ queue = [s \in Sessions |-> <<>>]
  /\ enq = [s \in Sessions |-> <<>>]
  /\ DATA_POINTS = <<>>
  /\ files = <<>>
  /\ fall_state = "default"
  /\ nsent = 0
  /\ interrupts = 0
  /\ log = [s \in Sessions |-> IF s = "main" THEN <<"discover">> ELSE <<>>]
  /\ hlog = [s \in Sessions |-> <<>>]

NextDiscover ==
  \/ Client_discover("main", res["main"])
  \/ Consumer_run("main")

SpecDiscover == InitDiscover /\ [][NextDiscover]_vars

\* The device has a name and the serial is a suffix of it.
NameMatches(d) ==
  /\ d.name # <<>>
  /\ \E p \in 0..Len(d.name) : SubSeq(d.name, p + 1, Len(d.name)) = SENSOR_ID

\* C17: when the match loop has run on the list discover() returned, the
\* address selected is that of the device at the least position whose name is
\* present and ends with the serial, and the connection is opened; when no
\* device of the list matches, nothing is selected, the sentinel is put and
\* no connection is opened.
C17_FirstMatchWins ==
  [][ \A s \in Sessions :
        (pc[s] = "discover" /\ pc'[s] # "discover") =>
          LET l == res[s]
              M == {i \in 1..Len(l) : NameMatches(l[i])}
          IN IF M = {}
             THEN /\ address'[s] = "None"
                  /\ pc'[s] = "done"
                  /\ Issues(s, "sentinel")
             ELSE /\ \E i \in M : /\ \A j \in M : i <= j
                                  /\ address'[s] = l[i].address
                  /\ pc'[s] = "connect"
                  /\ Issues(s, "connect") ]_vars

\* discover() returned a list with two matching devices, preceded by a device
\* without a name, and the first of the two was selected.
C17_Witness ==
  /\ pc["main"] = "connect"
  /\ Len(res["main"]) = 3
  /\ res["main"][1].name = NameMissing
  /\ NameMatches(res["main"][2])
  /\ NameMatches(res["main"][3])
  /\ address["main"] = res["main"][2].address

\* ---------------------------------------------------------------- C18
\* The Readings put on the queue of s before its first sentinel, in order.
BeforeSentinel(s) ==
  LET n == CHOOSE i \in 1..(Len(enq[s]) + 1) :
             /\ i <= Len(enq[s]) => enq[s][i] = None
             /\ \A j \in 1..(i - 1) : enq[s][j] # None
  IN SubSeq(enq[s], 1, n - 1)

\* C18: the rows after the header of every file written by a session's
\* consumer are the rows of the Readings put on that session's own queue
\* before its sentinel, each once and in order.
C18_OutputIsOwnReadings ==
  \A k \in 1..Len(files) :
    LET own == BeforeSentinel(files[k].by)
    IN Tail(files[k].rows) = [i \in 1..Len(own) |-> as_csv_field(own[i])]

\* ---------------------------------------------------------------- C19
\* C19: no run of run_ble_client puts more than one sentinel on its queue.
C19_AtMostOneSentinel ==
  \A s \in Sessions :
    /\ Count(enq[s], None) <= 1
    /\ Count(queue[s], None) <= 1

\* The main session was subscribed, found the link down after the device's
\* disconnect and put its sentinel without the teardown calls; the worker
\* session matched no device and put its sentinel; both have returned.
C19_Witness ==
  /\ run["main"] = "done"
  /\ SignalledWhileSubscribed("main")
  /\ ~Issued("main", "unsubscribe")
  /\ interrupts = 0
  /\ Count(enq["main"], None) = 1
  /\ run["worker"] = "done"
  /\ address["worker"] = "None"
  /\ Count(enq["worker"], None) = 1

====
